---- MODULE Spec2Model ----
(***************************************************************************)
(* A model of NERD/NER.py: the active-learning controller (BaseNerTagger), *)
(* the markup codec and the entity extraction pass (NerTagger).            *)
(*                                                                         *)
(* Strings of the program are sequences of one-character strings, so that  *)
(* indexing, slicing and prefix tests are computed as Python computes      *)
(* them.  Python dicts that are shared by reference (the examples) live in *)
(* a heap indexed by identity.                                             *)
(***************************************************************************)
EXTENDS Integers, Sequences, FiniteSets, TLC

VARIABLES
    \* ---- NerTagger / BaseNerTagger object state
    session,                \* "none" before NerTagger.__init__, "constructed" after
    unique_tags,            \* NerTagger.unique_tags: sequence of <<tag id, tag name>>
    heap,                   \* the example dicts: identity -> [raw, cached, features]
    unlabelled,             \* BaseNerTagger.unlabelled: sequence of identities
    labelled,               \* BaseNerTagger.labelled: sequence of identities
    model,                  \* BaseNerTagger.model: NoModel (None) or a CRF object
    current_example,        \* BaseNerTagger.current_example (Unset before the first select)
    current_example_index,  \* BaseNerTagger.current_example_index
    issued,                 \* identities whose markup the client holds
    ret,                    \* the last call and what it returned or raised
    \* ---- codec inputs and results
    ex,                     \* argument of _generate_html_from_example
    html,                   \* the markup: sequence of span elements
    user_tags,              \* result of _get_bilou_tags_from_html
    \* ---- extraction pass inputs and results
    text,                   \* the tokens of the text given to find_entities_in_text
    prediction,             \* model.predict_single(features)
    entities,               \* result of find_entities_in_text
    \* ---- a static method on its own
    args,                   \* the arguments of the call
    result                  \* what it returned

ctlVars == <<heap, unlabelled, labelled, model, current_example, current_example_index, issued>>
sessVars == <<session, unique_tags>>
codecVars == <<ex, html, user_tags>>
extVars == <<text, prediction, entities>>
fnVars == <<args, result>>
vars == <<session, unique_tags, heap, unlabelled, labelled, model, current_example,
          current_example_index, issued, ret, ex, html, user_tags, text, prediction, entities,
          args, result>>

\* ------------------------------------------------------------------------
\* Bounds of the model
MaxPool == 2        \* examples given to the constructor
MaxExamples == 2    \* example dicts ever created (constructor + appended)
MaxLabelled == 2    \* length of the labelled list
MaxSent == 4        \* tokens in a codec / extraction input
MaxHtml == 4        \* span elements in a hand-edited markup
MaxQueryPool == 3   \* examples in the pool the query regime is studied on

None == "None"
Unset == -1         \* an attribute that has not been assigned yet

\* ------------------------------------------------------------------------
\* Python string helpers over sequences of characters
Digits == {"0", "1", "2", "3", "4", "5", "6", "7", "8", "9"}
DigitChars == <<"0", "1", "2", "3", "4", "5", "6", "7", "8", "9">>
UpperChars == <<"A", "C", "D", "J", "S">>
LowerChars == <<"a", "c", "d", "j", "s">>
Uppers == {UpperChars[k] : k \in 1..Len(UpperChars)}
Lowers == {LowerChars[k] : k \in 1..Len(LowerChars)} \cup {"h", "i", "m", "n", "o", "r", "t"}

IsDigitCh(c) == c \in Digits
IsAlphaCh(c) == c \in Uppers \cup Lowers

LowerCh(c) ==
    IF c \in Uppers
    THEN LowerChars[CHOOSE k \in 1..Len(UpperChars) : UpperChars[k] = c]
    ELSE c

StrLower(s) == [k \in 1..Len(s) |-> LowerCh(s[k])]

StrIsDigit(s) == Len(s) > 0 /\ \A k \in 1..Len(s) : IsDigitCh(s[k])
StrIsAlpha(s) == Len(s) > 0 /\ \A k \in 1..Len(s) : IsAlphaCh(s[k])
StrIsUpper(s) == (\E k \in 1..Len(s) : s[k] \in Uppers) /\ (\A k \in 1..Len(s) : s[k] \notin Lowers)
StrIsLower(s) == (\E k \in 1..Len(s) : s[k] \in Lowers) /\ (\A k \in 1..Len(s) : s[k] \notin Uppers)
StrIsTitle(s) ==
    /\ \E k \in 1..Len(s) : IsAlphaCh(s[k])
    /\ \A k \in 1..Len(s) :
         /\ s[k] \in Uppers => (k = 1 \/ ~IsAlphaCh(s[k - 1]))
         /\ s[k] \in Lowers => (k > 1 /\ IsAlphaCh(s[k - 1]))

\* s[-n:]
Suffix(s, n) == IF Len(s) <= n THEN s ELSE SubSeq(s, Len(s) - n + 1, Len(s))
\* s[n:]  (n counted from 0)
From(s, n) == IF Len(s) <= n THEN <<>> ELSE SubSeq(s, n + 1, Len(s))
\* s.startswith(p)
StartsWith(s, p) == Len(s) >= Len(p) /\ SubSeq(s, 1, Len(p)) = p

RECURSIVE Str(_)
\* str(n) of a non-negative integer
Str(n) == IF n < 10 THEN <<DigitChars[n + 1]>> ELSE Str(n \div 10) \o <<DigitChars[(n % 10) + 1]>>

_is_alpha_and_numeric(string) ==
    IF StrIsDigit(string) THEN "DIGIT"
    ELSE IF StrIsAlpha(string)
         THEN IF StrIsUpper(string) THEN "ALPHA_UPPER"
              ELSE IF StrIsLower(string) THEN "ALPHA_LOWER"
              ELSE "ALPHA"
    ELSE IF Len(string) > 0
         THEN LET score(c) == IF IsDigitCh(c) THEN 1 ELSE IF IsAlphaCh(c) THEN -1 ELSE 0
                  alphanum == score(string[1]) + score(string[Len(string)])
              IN  IF alphanum = 0 THEN "ALPHA_NUM" ELSE ""
    ELSE "EMPTY"

\* the seven fields a neighbour at offset off contributes, under the keys "<prefix>:..."
NeighbourFeatures(sent, j, prefix) ==
    LET word == sent[j][1]
        postag == sent[j][2]
    IN  [key \in {"word.lower()", "word[-3:]", "word[-2:]", "word.istitle()",
                  "word.isupper()", "postag", "word.is_alphanum"} |->
            [prefix |-> prefix,
             value |-> CASE key = "word.lower()" -> StrLower(word)
                         [] key = "word[-3:]" -> Suffix(word, 3)
                         [] key = "word[-2:]" -> Suffix(word, 2)
                         [] key = "word.istitle()" -> StrIsTitle(word)
                         [] key = "word.isupper()" -> StrIsUpper(word)
                         [] key = "postag" -> postag
                         [] key = "word.is_alphanum" -> _is_alpha_and_numeric(word)]]

\* sent is a sequence of tuples whose first two fields are (token, postag);
\* i is counted from 1.  The dict is a record of its groups of keys; a group
\* that the code does not add is Absent (NoGroup for a group of neighbour keys).
Absent == "Absent"
NoGroup == <<>>
_word2features_Prev2IsPrev1(sent, i) ==
    LET word == sent[i][1]
        postag == sent[i][2]
    IN  [own |-> [bias |-> 1,
                  lower |-> StrLower(word),
                  suffix3 |-> Suffix(word, 3),
                  suffix2 |-> Suffix(word, 2),
                  isupper |-> StrIsUpper(word),
                  istitle |-> StrIsTitle(word),
                  isdigit |-> StrIsDigit(word),
                  is_alphanum |-> _is_alpha_and_numeric(word),
                  postag |-> postag],
         prev1 |-> IF i > 1 THEN NeighbourFeatures(sent, i - 1, "-1") ELSE NoGroup,
         BOS |-> IF i > 1 THEN Absent ELSE "True",
         prev2 |-> IF i > 2 THEN NeighbourFeatures(sent, i - 1, "-2") ELSE NoGroup,
         next1 |-> IF i < Len(sent) THEN NeighbourFeatures(sent, i + 1, "+1") ELSE NoGroup,
         EOS |-> IF i < Len(sent) THEN Absent ELSE "True",
         next2 |-> IF i < Len(sent) - 1 THEN NeighbourFeatures(sent, i + 2, "+2") ELSE NoGroup]

_word2features(sent, i) ==
    LET word == sent[i][1]
        postag == sent[i][2]
    IN  [own |-> [bias |-> 1,
                  lower |-> StrLower(word),
                  suffix3 |-> Suffix(word, 3),
                  suffix2 |-> Suffix(word, 2),
                  isupper |-> StrIsUpper(word),
                  istitle |-> StrIsTitle(word),
                  isdigit |-> StrIsDigit(word),
                  is_alphanum |-> _is_alpha_and_numeric(word),
                  postag |-> postag],
         prev1 |-> IF i > 1 THEN NeighbourFeatures(sent, i - 1, "-1") ELSE NoGroup,
         BOS |-> IF i > 1 THEN Absent ELSE "True",
         prev2 |-> IF i > 2 THEN NeighbourFeatures(sent, i - 2, "-2") ELSE NoGroup,
         next1 |-> IF i < Len(sent) THEN NeighbourFeatures(sent, i + 1, "+1") ELSE NoGroup,
         EOS |-> IF i < Len(sent) THEN Absent ELSE "True",
         next2 |-> IF i < Len(sent) - 1 THEN NeighbourFeatures(sent, i + 2, "+2") ELSE NoGroup]

_sent2features(sent) == [i \in 1..Len(sent) |-> _word2features(sent, i)]

_sent2labels(sent) == [i \in 1..Len(sent) |-> sent[i][3]]

\* ------------------------------------------------------------------------
\* The uncertainty scorer.  A token's marginals are the list of its label
\* probabilities in percent; entropies are in thousandths of a nat; a score is
\* the fraction num / den, so that the mean is kept exact.

\* scipy's entr(p) = -p ln p, for the probabilities used here
entr(p) ==
    CASE p = 0 -> 0
      [] p = 10 -> 230
      [] p = 25 -> 347
      [] p = 50 -> 347
      [] p = 75 -> 216
      [] p = 90 -> 95
      [] p = 100 -> 0

RECURSIVE SumOf(_)
\* sum(un)
SumOf(un) == IF Len(un) = 0 THEN 0 ELSE un[1] + SumOf(Tail(un))

RECURSIVE MaxOf(_)
\* max(un), un not empty
MaxOf(un) ==
    IF Len(un) = 1 THEN un[1]
    ELSE LET rest == MaxOf(Tail(un)) IN IF un[1] >= rest THEN un[1] ELSE rest

\* scipy.stats.entropy(probabilities): the sum of entr over the distribution
entropy(probabilities) == SumOf([k \in 1..Len(probabilities) |-> entr(probabilities[k])])

Fraction(num, den) == [num |-> num, den |-> den]
\* the implicit return None of a mode that is neither 'max' nor 'mean'
NoScore == Fraction(0, 0)

_get_prediction_uncertainity_MaxIsLast(pred, mode) ==
    IF Len(pred) = 0 THEN Fraction(0, 1)
    ELSE LET un == [k \in 1..Len(pred) |-> entropy(pred[k])]
         IN  IF mode = "max" THEN Fraction(un[Len(un)], 1)
             ELSE IF mode = "mean" THEN Fraction(SumOf(un), Len(un))
             ELSE NoScore

\* lines 197-209
_get_prediction_uncertainity(pred, mode) ==
    IF Len(pred) = 0 THEN Fraction(0, 1)
    ELSE LET un == [k \in 1..Len(pred) |-> entropy(pred[k])]
         IN  IF mode = "max" THEN Fraction(MaxOf(un), 1)
             ELSE IF mode = "mean" THEN Fraction(SumOf(un), Len(un))
             ELSE NoScore

\* a < b and a <= b for scores
Less(a, b) == a.num * b.den < b.num * a.den
LessEq(a, b) == a.num * b.den <= b.num * a.den

argmax_Last(scores) ==
    CHOOSE k \in 1..Len(scores) :
        /\ \A j \in 1..Len(scores) : LessEq(scores[j], scores[k])
        /\ \A j \in (k + 1)..Len(scores) : Less(scores[j], scores[k])

\* np.argmax(scores), counted from 1: the first of the largest entries
argmax(scores) ==
    CHOOSE k \in 1..Len(scores) :
        /\ \A j \in 1..Len(scores) : LessEq(scores[j], scores[k])
        /\ \A j \in 1..(k - 1) : Less(scores[j], scores[k])

\* ------------------------------------------------------------------------
\* The tokenizer and POS tagger (external): a text is given as its tokens
Dr == <<"D", "r">>
Smith == <<"S", "m", "i", "t", "h">>
John == <<"J", "o", "h", "n">>
CS == <<"C", "S">>
N101 == <<"1", "0", "1">>
AWord == <<"A">>

pos_tag(word) == IF StrIsDigit(word) THEN "CD" ELSE "NNP"
_get_pos_tagged_example(tokens) == [i \in 1..Len(tokens) |-> <<tokens[i], pos_tag(tokens[i])>>]

\* the texts a caller passes in
Texts == { <<Dr>>, <<CS, N101>> }

\* ------------------------------------------------------------------------
\* Tag vocabulary and labels
PROF == <<"P", "R", "O", "F">>
CC == <<"C", "C">>
DemoTags == << <<PROF, "Professor">>, <<CC, "Course Code">> >>

OLabel == <<"O">>
BilouLabel(prefix, tag) == <<prefix, "-">> \o tag

\* ------------------------------------------------------------------------
\* The markup codec.  The markup is held as the sequence of span elements
\* BeautifulSoup's find_all('span') yields: [text, attrs], attrs a function
\* from attribute names to the attribute strings.
NoAttrs == [a \in {} |-> <<>>]
TagAttrs(tagid, tag) == [a \in {"data-tag-id", "data-tag", "class"} |->
                            IF a = "data-tag-id" THEN tagid ELSE tag]
Span(txt, attrs) == [text |-> txt, attrs |-> attrs]

_is_a_tag(span) == "data-tag" \in DOMAIN span.attrs

RECURSIVE GenerateLoop_UnitKeepsId(_, _, _, _)
GenerateLoop_UnitKeepsId(example, i, tagidcounter, spans) ==
    IF i > Len(example) THEN spans
    ELSE LET tag == example[i][3]
         IN  IF tag[1] \in {"B", "I", "U"}
             THEN GenerateLoop_UnitKeepsId(example, i + 1, tagidcounter,
                               [spans EXCEPT ![i].attrs = TagAttrs(Str(tagidcounter), From(tag, 2))])
             ELSE IF tag[1] \in {"L"}
             THEN GenerateLoop_UnitKeepsId(example, i + 1, tagidcounter + 1,
                               [spans EXCEPT ![i].attrs = TagAttrs(Str(tagidcounter), From(tag, 2))])
             ELSE GenerateLoop_UnitKeepsId(example, i + 1, tagidcounter, spans)

RECURSIVE GenerateLoop(_, _, _, _)
\* lines 425-440: the scan that hands out data-tag-id; i is counted from 1
GenerateLoop(example, i, tagidcounter, spans) ==
    IF i > Len(example) THEN spans
    ELSE LET tag == example[i][3]
         IN  IF tag[1] \in {"B", "I"}
             THEN GenerateLoop(example, i + 1, tagidcounter,
                               [spans EXCEPT ![i].attrs = TagAttrs(Str(tagidcounter), From(tag, 2))])
             ELSE IF tag[1] \in {"L", "U"}
             THEN GenerateLoop(example, i + 1, tagidcounter + 1,
                               [spans EXCEPT ![i].attrs = TagAttrs(Str(tagidcounter), From(tag, 2))])
             ELSE GenerateLoop(example, i + 1, tagidcounter, spans)

\* example: a non-empty sequence of (token, postag) or (token, postag, label) tuples
_generate_html_from_example(example) ==
    LET spans == [i \in 1..Len(example) |-> Span(example[i][1], NoAttrs)]
    IN  IF Len(example[1]) = 3 THEN GenerateLoop(example, 1, 0, spans) ELSE spans

\* Counter(tag_ids)[tag_id]
CounterOf(items, tag_id) ==
    Cardinality({k \in 1..Len(items) : _is_a_tag(items[k]) /\ items[k].attrs["data-tag-id"] = tag_id})

Raised(e) == [raised |-> e, val |-> <<>>]
Returned(v) == [raised |-> None, val |-> v]

RECURSIVE DecodeLoop_GroupEndsInside(_, _, _)
DecodeLoop_GroupEndsInside(items, index, toret) ==
    IF index > Len(items) THEN Returned(toret)
    ELSE LET item == items[index]
         IN  IF _is_a_tag(item)
             THEN LET tag_id == item.attrs["data-tag-id"]
                      tag == item.attrs["data-tag"]
                      size == CounterOf(items, tag_id)
                  IN  IF size = 1
                      THEN DecodeLoop_GroupEndsInside(items, index + 1,
                                      Append(toret, <<item.text, BilouLabel("U", tag)>>))
                      ELSE IF index + size - 1 > Len(items)
                      THEN Raised("IndexError")
                      ELSE DecodeLoop_GroupEndsInside(items, index + size,
                                toret \o << <<item.text, BilouLabel("B", tag)>> >>
                                      \o [i \in 1..(size - 2) |->
                                            <<items[index + i].text, BilouLabel("I", tag)>>]
                                      \o << <<items[index + size - 1].text, BilouLabel("I", tag)>> >>)
             ELSE DecodeLoop_GroupEndsInside(items, index + 1, Append(toret, <<item.text, OLabel>>))

RECURSIVE DecodeLoop(_, _, _)
\* lines 389-410: index is counted from 1
DecodeLoop(items, index, toret) ==
    IF index > Len(items) THEN Returned(toret)
    ELSE LET item == items[index]
         IN  IF _is_a_tag(item)
             THEN LET tag_id == item.attrs["data-tag-id"]
                      tag == item.attrs["data-tag"]
                      size == CounterOf(items, tag_id)
                  IN  IF size = 1
                      THEN DecodeLoop(items, index + 1,
                                      Append(toret, <<item.text, BilouLabel("U", tag)>>))
                      ELSE IF index + size - 1 > Len(items)
                      THEN Raised("IndexError")
                      ELSE DecodeLoop(items, index + size,
                                toret \o << <<item.text, BilouLabel("B", tag)>> >>
                                      \o [i \in 1..(size - 2) |->
                                            <<items[index + i].text, BilouLabel("I", tag)>>]
                                      \o << <<items[index + size - 1].text, BilouLabel("L", tag)>> >>)
             ELSE DecodeLoop(items, index + 1, Append(toret, <<item.text, OLabel>>))

_get_bilou_tags_from_html(items) ==
    IF \E k \in 1..Len(items) : _is_a_tag(items[k]) /\ "data-tag-id" \notin DOMAIN items[k].attrs
    THEN Raised("KeyError")
    ELSE DecodeLoop(items, 1, <<>>)

\* ------------------------------------------------------------------------
\* BaseNerTagger

\* {'raw': ...}: an example dict without the 'features' key
NewExample(tokens) == [raw |-> _get_pos_tagged_example(tokens), cached |-> FALSE, features |-> <<>>]

\* self.model is None / a CRF object (fitted or not) and the data it was fitted on
NoModel == [present |-> FALSE, fitted |-> FALSE, X |-> <<>>, Y |-> <<>>]
CRF == [present |-> TRUE, fitted |-> FALSE, X |-> <<>>, Y |-> <<>>]

\* list.pop(i), i counted from 0
Pop(list, i) == SubSeq(list, 1, i) \o SubSeq(list, i + 2, Len(list))

\* ret: the call, what the method returned or raised, the example a posted
\* markup was rendered from and the number of (text, label) pairs posted
Exceptions == {"ValueError", "NotFittedError", "FitError", "IndexError", "KeyError", "AttributeError"}
\* what the route answers: its body, or a server error when the call raised;
\* /save_example answers 'Success' whatever save_example returned (line 501)
Http(op, val) ==
    IF val \in Exceptions THEN "500"
    ELSE IF op = "save_example" THEN "Success"
    ELSE val
\* sample and uncertainities are the locals of the last query_new_example
Call(op, val, src, n) ==
    [op |-> op, val |-> val, http |-> Http(op, val), src |-> src, n |-> n,
     sample |-> <<>>, uncertainities |-> <<>>]

\* the client keeps the page of the latest selection and the one before it
Issue(id) == ({current_example} \ {Unset}) \cup {id}

\* lines 211-219; self.unlabelled is not empty
get_new_random_example(index) ==
    /\ index \in 0..(Len(unlabelled) - 1)
    /\ current_example_index' = index
    /\ current_example' = unlabelled[index + 1]
    /\ issued' = Issue(unlabelled[index + 1])
    /\ ret' = Call("load_example", "random", unlabelled[index + 1], Unset)
    /\ UNCHANGED <<heap, unlabelled, labelled, model>>

\* the indices np.random.randint(0, len - 1, size=250) can draw (high is exclusive)
SampleRange == IF Len(unlabelled) = 1 THEN {0} ELSE 0..(Len(unlabelled) - 2)

\* line 249: size=250
SampleSize == 250

Range(f) == {f[k] : k \in DOMAIN f}

\* The sample, as the drawn indices in the order of their first occurrence:
\* a repeated draw is the same example with the same features and the same
\* score, and np.argmax keeps the first occurrence, so the repetitions decide
\* nothing.  Any such order can be drawn.
Samples ==
    {sample \in UNION {[1..n -> SampleRange] : n \in 1..Cardinality(SampleRange)} :
        /\ Len(sample) <= SampleSize
        /\ \A a, b \in 1..Len(sample) : a # b => sample[a] # sample[b]}

\* lines 250-255: the examples of the sample get their features cached
CacheFeatures(h, sample) ==
    [id \in DOMAIN h |->
        IF (\E s \in sample : unlabelled[s + 1] = id) /\ ~h[id].cached
        THEN [h[id] EXCEPT !.cached = TRUE, !.features = _sent2features(h[id].raw)]
        ELSE h[id]]

\* what the tagger's predict_marginals may answer for a sample: for each of
\* its examples, one distribution per token.  The tokens of one example are
\* given the same distribution, so an example's score is one choice.
QueryDists == {<<100>>, <<50, 50>>}
predict_marginals(sample) ==
    {[k \in 1..Len(sample) |->
         [j \in 1..Len(heap[unlabelled[sample[k] + 1]].raw) |-> choice[k]]] :
        choice \in [1..Len(sample) -> QueryDists]}

\* lines 235-265; self.unlabelled is not empty.  sample is the drawn sample,
\* preds the marginals the tagger gives for it
query_new_example(sample, preds, mode) ==
    /\ heap' = CacheFeatures(heap, Range(sample))
    /\ IF model.fitted
       THEN LET uncertainities == [k \in 1..Len(preds) |->
                                      _get_prediction_uncertainity(preds[k], mode)]
                index == argmax(uncertainities)
                chosen == sample[index]
            IN  /\ current_example_index' = chosen
                /\ current_example' = unlabelled[chosen + 1]
                /\ issued' = Issue(unlabelled[chosen + 1])
                /\ ret' = [Call("load_example", "query", unlabelled[chosen + 1], Unset)
                              EXCEPT !.sample = sample, !.uncertainities = uncertainities]
       ELSE \* predict_marginals of a CRF that was never fitted raises
            /\ ret' = Call("load_example", "NotFittedError", Unset, Unset)
            /\ UNCHANGED <<current_example_index, current_example, issued>>
    /\ UNCHANGED <<unlabelled, labelled, model>>

load_example_EmptyIsSilent ==
    /\ session = "constructed"
    /\ IF Len(unlabelled) = 0
       THEN /\ ret' = Call("load_example", IF model.present THEN "query" ELSE "random", Unset, Unset)
            /\ UNCHANGED ctlVars
       ELSE IF ~model.present
       THEN \E index \in 0..(Len(unlabelled) - 1) : get_new_random_example(index)
       ELSE \E sample \in Samples : \E preds \in predict_marginals(sample) :
                query_new_example(sample, preds, "max")
    /\ UNCHANGED <<sessVars, codecVars, extVars, fnVars>>

\* lines 480-488: the /load_example route
load_example ==
    /\ session = "constructed"
    /\ IF Len(unlabelled) = 0
       THEN \* random.randint(0, -1) and np.random.randint(0, -1, ...) raise
            /\ ret' = Call("load_example", "ValueError", Unset, Unset)
            /\ UNCHANGED ctlVars
       ELSE IF ~model.present
       THEN \E index \in 0..(Len(unlabelled) - 1) : get_new_random_example(index)
       ELSE \E sample \in Samples : \E preds \in predict_marginals(sample) :
                query_new_example(sample, preds, "max")
    /\ UNCHANGED <<sessVars, codecVars, extVars, fnVars>>

\* lines 267-283.  fit([], []) on an empty labelled list is the tagger's
\* business: it either raises or returns
update_model ==
    /\ session = "constructed"
    /\ LET X == [k \in 1..Len(labelled) |-> heap[labelled[k]].features]
           Y == [k \in 1..Len(labelled) |-> _sent2labels(heap[labelled[k]].raw)]
           created == IF model.present THEN model ELSE CRF
       IN  IF Len(labelled) = 0
           THEN \/ /\ model' = created
                   /\ ret' = Call("update_model", "FitError", Unset, Unset)
                \/ /\ model' = [created EXCEPT !.fitted = TRUE, !.X = X, !.Y = Y]
                   /\ ret' = Call("update_model", "Model Updated Successfully", Unset, Unset)
           ELSE /\ model' = [created EXCEPT !.fitted = TRUE, !.X = X, !.Y = Y]
                /\ ret' = Call("update_model", "Model Updated Successfully", Unset, Unset)
    /\ UNCHANGED <<heap, unlabelled, labelled, current_example, current_example_index, issued>>
    /\ UNCHANGED <<sessVars, codecVars, extVars, fnVars>>

\* lines 297-300: the corrected tokens
Corrected(raw, data) == [k \in 1..Len(data) |-> <<raw[k][1], raw[k][2], data[k][2]>>]

LengthMismatch_OnlyLonger(data, raw) == Len(data) > Len(raw)
\* line 294
LengthMismatch(data, raw) == Len(data) # Len(raw)

\* lines 285-306; called after a select.  src is the example the client's
\* markup was rendered from
save_example(data, src) ==
    IF LengthMismatch(data, heap[current_example].raw)
    THEN /\ ret' = Call("save_example", "False", src, Len(data))
         /\ UNCHANGED ctlVars
    ELSE LET toret == Corrected(heap[current_example].raw, data)
         IN  /\ heap' = [heap EXCEPT ![current_example] =
                            [raw |-> toret, cached |-> TRUE, features |-> _sent2features(toret)]]
             /\ labelled' = Append(labelled, current_example)
             /\ IF current_example_index < Len(unlabelled)
                THEN /\ unlabelled' = Pop(unlabelled, current_example_index)
                     /\ ret' = Call("save_example", "None", src, Len(data))
                ELSE /\ unlabelled' = unlabelled
                     /\ ret' = Call("save_example", "IndexError", src, Len(data))
             /\ UNCHANGED <<model, current_example, current_example_index, issued>>

\* what a client can post for the markup it received for example src: the
\* same tokens, each left plain or marked with a tag and an entity-instance id
ClientAttrs == {NoAttrs, TagAttrs(Str(0), PROF)}
ClientMarkups(src) ==
    LET raw == heap[src].raw
    IN  {[k \in 1..Len(raw) |-> Span(raw[k][1], a[k])] : a \in [1..Len(raw) -> ClientAttrs]}

\* lines 495-501: the /save_example route
save_example_route ==
    /\ session = "constructed"
    /\ Len(labelled) < MaxLabelled
    /\ \E src \in issued : \E markup \in ClientMarkups(src) :
         LET decoded == _get_bilou_tags_from_html(markup)
         IN  IF decoded.raised # None
             THEN /\ ret' = Call("save_example", decoded.raised, src, Unset)
                  /\ UNCHANGED ctlVars
             ELSE IF current_example = Unset
             THEN \* self.current_example was never assigned
                  /\ ret' = Call("save_example", "AttributeError", src, Len(decoded.val))
                  /\ UNCHANGED ctlVars
             ELSE save_example(decoded.val, src)
    /\ UNCHANGED <<sessVars, codecVars, extVars, fnVars>>

add_unlabelled_examples_Prepends ==
    /\ session = "constructed"
    /\ Len(heap) < MaxExamples
    /\ \E tokens \in Texts :
         /\ heap' = Append(heap, NewExample(tokens))
         /\ unlabelled' = <<Len(heap) + 1>> \o unlabelled
    /\ ret' = Call("add_unlabelled_examples", "None", Unset, Unset)
    /\ UNCHANGED <<labelled, model, current_example, current_example_index, issued>>
    /\ UNCHANGED <<sessVars, codecVars, extVars, fnVars>>

\* lines 336-346
add_unlabelled_examples ==
    /\ session = "constructed"
    /\ Len(heap) < MaxExamples
    /\ \E tokens \in Texts :
         /\ heap' = Append(heap, NewExample(tokens))
         /\ unlabelled' = Append(unlabelled, Len(heap) + 1)
    /\ ret' = Call("add_unlabelled_examples", "None", Unset, Unset)
    /\ UNCHANGED <<labelled, model, current_example, current_example_index, issued>>
    /\ UNCHANGED <<sessVars, codecVars, extVars, fnVars>>

\* ------------------------------------------------------------------------
\* NerTagger: construction and the page

\* lines 349-351: the twenty display colors
list_of_colors ==
    <<"#e6194B", "#3cb44b", "#ffe119", "#4363d8", "#f58231", "#911eb4", "#42d4f4",
      "#f032e6", "#bfef45", "#fabebe", "#469990", "#e6beff", "#9A6324", "#fffac8",
      "#800000", "#aaffc3", "#808000", "#ffd8b1", "#000075", "#a9a9a9 ">>

\* tag vocabularies a caller may pass: the first n of PROF, CC, T3, T4, ...
TagOf(k) == IF k <= Len(DemoTags) THEN DemoTags[k] ELSE << <<"T">> \o Str(k), "Tag" >>
TagVocabulary(n) == [k \in 1..n |-> TagOf(k)]
MaxTags == Len(list_of_colors) + 1

\* lines 32-50 and 358-369: the constructor stores its arguments; it makes no
\* check of the tag vocabulary
NerTagger_init ==
    /\ session = "none"
    /\ session' = "constructed"
    /\ UNCHANGED unique_tags
    /\ \E dataset \in UNION {[1..k -> Texts] : k \in 0..MaxPool} :
         /\ heap' = [k \in 1..Len(dataset) |-> NewExample(dataset[k])]
         /\ unlabelled' = [k \in 1..Len(dataset) |-> k]
    /\ labelled' = <<>>
    /\ model' = NoModel
    /\ ret' = Call("__init__", "None", Unset, Unset)
    /\ UNCHANGED <<current_example, current_example_index, issued, codecVars, extVars, fnVars>>

\* lines 447-469 and 476-478: the "/" route
_render_app_template(unique_tags_data) ==
    IF Len(unique_tags_data) > Len(list_of_colors)
    THEN "Too many tags. Add more colors to list_of_colors"
    ELSE "page"

base_app ==
    /\ session = "constructed"
    /\ ret' = Call("base_app", _render_app_template(unique_tags), Unset, Unset)
    /\ UNCHANGED <<sessVars, ctlVars, codecVars, extVars, fnVars>>

\* ------------------------------------------------------------------------
\* NerTagger.find_entities_in_text

RECURSIVE Join(_)
\* ' '.join(toks)
Join(toks) ==
    IF Len(toks) = 0 THEN <<>>
    ELSE IF Len(toks) = 1 THEN toks[1]
    ELSE toks[1] \o <<" ">> \o Join(Tail(toks))

\* line 369: {t[0]: t[1] for t in self.unique_tags}; a later pair wins
HasTag(tags, id) == \E k \in 1..Len(tags) : tags[k][1] = id
utmapping(tags, id) ==
    LET last == CHOOSE k \in 1..Len(tags) :
                    tags[k][1] = id /\ \A m \in (k + 1)..Len(tags) : tags[m][1] # id
    IN  tags[last][2]

Entity(tags, ent_toks, curr_ent) == [value |-> Join(ent_toks), entity |-> utmapping(tags, curr_ent)]

\* the scan's variables; raised is set when utmapping[curr_ent] is a KeyError
ScanStart == [curr_ent |-> OLabel, ent_toks |-> <<>>, entities |-> <<>>, raised |-> None]

\* what appending the buffer as an entity does to the scan
Emit(tags, st, toks) ==
    IF HasTag(tags, st.curr_ent)
    THEN [st EXCEPT !.entities = Append(st.entities, Entity(tags, toks, st.curr_ent))]
    ELSE [st EXCEPT !.raised = "KeyError"]

ScanStep_LastKeepsBuffer(tags, st, tok, tag) ==
    IF st.raised # None THEN st
    ELSE IF StartsWith(tag, <<"B", "-">>)
    THEN LET flushed == IF Len(st.ent_toks) > 0
                        THEN [Emit(tags, st, st.ent_toks) EXCEPT !.ent_toks = <<>>]
                        ELSE st
         IN  IF flushed.raised # None THEN flushed
             ELSE [flushed EXCEPT !.curr_ent = From(tag, 2), !.ent_toks = Append(flushed.ent_toks, tok)]
    ELSE IF StartsWith(tag, <<"I", "-">>)
    THEN IF st.curr_ent = OLabel THEN st
         ELSE [st EXCEPT !.ent_toks = Append(st.ent_toks, tok)]
    ELSE IF StartsWith(tag, <<"L", "-">>)
    THEN IF st.curr_ent = OLabel THEN st
         ELSE Emit(tags, [st EXCEPT !.ent_toks = Append(st.ent_toks, tok)], Append(st.ent_toks, tok))
    ELSE IF StartsWith(tag, <<"U", "-">>)
    THEN Emit(tags, [st EXCEPT !.curr_ent = From(tag, 2), !.ent_toks = <<>>], <<tok>>)
    ELSE IF StartsWith(tag, <<"O">>)
    THEN LET flushed == IF Len(st.ent_toks) > 0 THEN Emit(tags, st, st.ent_toks) ELSE st
         IN  IF flushed.raised # None THEN flushed
             ELSE [flushed EXCEPT !.ent_toks = <<>>, !.curr_ent = OLabel]
    ELSE st

\* lines 605-643: one turn of the loop, for the item (tok, tag)
ScanStep(tags, st, tok, tag) ==
    IF st.raised # None THEN st
    ELSE IF StartsWith(tag, <<"B", "-">>)
    THEN LET flushed == IF Len(st.ent_toks) > 0
                        THEN [Emit(tags, st, st.ent_toks) EXCEPT !.ent_toks = <<>>]
                        ELSE st
         IN  IF flushed.raised # None THEN flushed
             ELSE [flushed EXCEPT !.curr_ent = From(tag, 2), !.ent_toks = Append(flushed.ent_toks, tok)]
    ELSE IF StartsWith(tag, <<"I", "-">>)
    THEN IF st.curr_ent = OLabel THEN st
         ELSE [st EXCEPT !.ent_toks = Append(st.ent_toks, tok)]
    ELSE IF StartsWith(tag, <<"L", "-">>)
    THEN IF st.curr_ent = OLabel THEN st
         ELSE [Emit(tags, st, Append(st.ent_toks, tok)) EXCEPT !.ent_toks = <<>>]
    ELSE IF StartsWith(tag, <<"U", "-">>)
    THEN Emit(tags, [st EXCEPT !.curr_ent = From(tag, 2), !.ent_toks = <<>>], <<tok>>)
    ELSE IF StartsWith(tag, <<"O">>)
    THEN LET flushed == IF Len(st.ent_toks) > 0 THEN Emit(tags, st, st.ent_toks) ELSE st
         IN  IF flushed.raised # None THEN flushed
             ELSE [flushed EXCEPT !.ent_toks = <<>>, !.curr_ent = OLabel]
    ELSE st

RECURSIVE Scan(_, _, _, _)
\* lines 600-643: the scan's variables after the first n items of
\* zip(tokens, tagging)
Scan(tags, tokens, tagging, n) ==
    IF n = 0 THEN ScanStart
    ELSE ScanStep(tags, Scan(tags, tokens, tagging, n - 1), tokens[n], tagging[n])

Min(a, b) == IF a < b THEN a ELSE b

\* lines 596-650, given the tokens of the text and the tagger's prediction
find_entities(tags, tokens, tagging) ==
    LET st == Scan(tags, tokens, tagging, Min(Len(tokens), Len(tagging)))
        final == IF st.raised = None /\ Len(st.ent_toks) > 0 THEN Emit(tags, st, st.ent_toks) ELSE st
    IN  IF final.raised # None THEN Raised(final.raised) ELSE Returned(final.entities)

find_entities_in_text ==
    /\ session = "constructed"
    /\ ret.op = "text"
    /\ entities' = (IF model.present
                    THEN find_entities(unique_tags, text, prediction)
                    ELSE Raised("AttributeError"))
    /\ ret' = Call("find_entities_in_text", "None", Unset, Unset)
    /\ UNCHANGED <<text, prediction, sessVars, ctlVars, codecVars, fnVars>>

\* ------------------------------------------------------------------------
\* The controller after NerTagger(dataset, unique_tags)
BoundedSeqs(S, n) == UNION {[1..k -> S] : k \in 0..n}

NoCall == /\ args = <<>>
          /\ result = <<>>

InitOther ==
    /\ ex = <<>> /\ html = <<>> /\ user_tags = Returned(<<>>)
    /\ text = <<>> /\ prediction = <<>> /\ entities = Returned(<<>>)
    /\ NoCall

Init ==
    /\ session = "constructed"
    /\ unique_tags = DemoTags
    /\ \E dataset \in BoundedSeqs(Texts, MaxPool) :
         /\ heap = [k \in 1..Len(dataset) |-> NewExample(dataset[k])]
         /\ unlabelled = [k \in 1..Len(dataset) |-> k]
    /\ labelled = <<>>
    /\ model = NoModel
    /\ current_example = Unset
    /\ current_example_index = Unset
    /\ issued = {}
    /\ ret = Call("__init__", "None", Unset, Unset)
    /\ InitOther

Next ==
    \/ load_example
    \/ update_model
    \/ save_example_route
    \/ add_unlabelled_examples

Spec == Init /\ [][Next]_vars

\* ------------------------------------------------------------------------
\* Construction: the caller's arguments are chosen, then NerTagger(...) runs
\* and the server answers "/" and "/load_example"
InitSession ==
    /\ session = "none"
    /\ \E n \in 0..MaxTags : unique_tags = TagVocabulary(n)
    /\ heap = <<>>
    /\ unlabelled = <<>>
    /\ labelled = <<>>
    /\ model = NoModel
    /\ current_example = Unset
    /\ current_example_index = Unset
    /\ issued = {}
    /\ ret = Call("caller", "None", Unset, Unset)
    /\ InitOther

NextSession ==
    \/ NerTagger_init
    \/ base_app
    \/ load_example

SpecSession == InitSession /\ [][NextSession]_vars

\* ------------------------------------------------------------------------
\* The query regime: a session whose model was fitted or restored earlier
InitQuery ==
    /\ session = "constructed"
    /\ unique_tags = DemoTags
    /\ \E dataset \in BoundedSeqs(Texts, MaxQueryPool) :
         /\ heap = [k \in 1..Len(dataset) |-> NewExample(dataset[k])]
         /\ unlabelled = [k \in 1..Len(dataset) |-> k]
    /\ labelled = <<>>
    /\ model = [CRF EXCEPT !.fitted = TRUE]
    /\ current_example = Unset
    /\ current_example_index = Unset
    /\ issued = {}
    /\ ret = Call("load_model", "None", Unset, Unset)
    /\ InitOther

NextQuery == load_example

SpecQuery == InitQuery /\ [][NextQuery]_vars

\* ------------------------------------------------------------------------
\* Properties of the controller (checked under Spec)

\* the step is an accept-correction that got as far as BaseNerTagger.save_example
AcceptStep == ret'.op = "save_example" /\ ret'.n # Unset /\ current_example # Unset

\* C1: after a successful accept-correction the current slot is cleared, so
\* an accept-correction issued again with no select in between is applied to
\* no example and changes neither pool.
C1_SecondAcceptNotApplied ==
    [][(ret.op = "save_example" /\ ret.val = "None" /\ ret'.op = "save_example")
         => (ret'.val \notin {"None", "IndexError"}
             /\ heap' = heap /\ unlabelled' = unlabelled /\ labelled' = labelled)]_vars

\* C2: a correction rendered from an example other than the current one is
\* rejected and labels or moves nothing, whatever the token counts.
C2_StaleCorrectionRejected ==
    [][(AcceptStep /\ ret'.src # current_example)
         => (ret'.val = "False" /\ heap' = heap
             /\ unlabelled' = unlabelled /\ labelled' = labelled)]_vars

\* C3: after a select, a correction whose length differs from the current
\* example's token count returns False and leaves the pools, the current
\* slot and the current example's tokens and cached features unchanged.
C3_MismatchRejected ==
    [][(AcceptStep /\ ret'.n # Len(heap[current_example].raw))
         => (ret'.val = "False" /\ UNCHANGED ctlVars)]_vars

\* a mismatched correction was rejected while the current example, with its
\* cached features, sat in the unlabelled pool
C3_Witness ==
    /\ ret.op = "save_example" /\ ret.val = "False"
    /\ current_example # Unset
    /\ ret.n # Len(heap[current_example].raw)
    /\ heap[current_example].cached
    /\ current_example_index < Len(unlabelled)
    /\ unlabelled[current_example_index + 1] = current_example

\* C10: a retrain with an empty labelled pool fails and leaves the model
\* absent, so that the next select is a bootstrap selection.
C10_EmptyRetrainKeepsBootstrap ==
    (ret.op = "update_model" /\ Len(labelled) = 0)
        => (ret.val = "FitError" /\ ~model.present)

\* C11: a select on an empty unlabelled pool raises in both regimes and
\* returns no example; the slot, the pools and the model stay as they were.
C11_EmptySelectFails ==
    [][(ret'.op = "load_example" /\ Len(unlabelled) = 0)
         => (ret'.val = "ValueError" /\ ret'.src = Unset /\ UNCHANGED ctlVars)]_vars

\* a select failed on an empty pool in the query regime, after an earlier
\* selection had been labelled
C11_Witness ==
    /\ ret.op = "load_example" /\ ret.val = "ValueError"
    /\ Len(unlabelled) = 0
    /\ model.present
    /\ current_example # Unset
    /\ Len(labelled) > 0

Occurrences(list, id) == Cardinality({k \in 1..Len(list) : list[k] = id})

\* C15: every example is in exactly one pool, once: an accepted correction
\* removes from the unlabelled pool the example it appends to the labelled
\* pool, and an accept that fails leaves both pools as they were.
C15_AtomicMove ==
    /\ [](\A id \in 1..Len(heap) : Occurrences(unlabelled, id) + Occurrences(labelled, id) = 1)
    /\ [][(ret'.op = "save_example" /\ ret'.val # "None")
            => (unlabelled' = unlabelled /\ labelled' = labelled)]_vars

\* ------------------------------------------------------------------------
\* Properties of the query regime (checked under SpecQuery)

Queried == ret.op = "load_example" /\ ret.val = "query"

\* C16: with a pool smaller than the sample size, every position of the
\* pool, the last one included, is in the scored sample.
C16_WholePoolScored ==
    (Queried /\ Len(unlabelled) < SampleSize)
        => \A position \in 0..(Len(unlabelled) - 1) : position \in Range(ret.sample)

\* C17: after a query the current index is a position of the pool, the
\* current example is the example there, and it is the first entry of the
\* sample whose score no other entry exceeds.
C17_ArgMaxSelected ==
    Queried =>
        /\ current_example_index \in 0..(Len(unlabelled) - 1)
        /\ current_example = unlabelled[current_example_index + 1]
        /\ \E k \in 1..Len(ret.sample) :
             /\ ret.sample[k] = current_example_index
             /\ \A j \in 1..Len(ret.sample) : LessEq(ret.uncertainities[j], ret.uncertainities[k])
             /\ \A j \in 1..(k - 1) : Less(ret.uncertainities[j], ret.uncertainities[k])

\* two examples were scored, their scores tied above zero, and the first of
\* the sample became current
C17_Witness ==
    /\ Queried
    /\ Len(ret.sample) = 2
    /\ ret.uncertainities[1] = ret.uncertainities[2]
    /\ ret.uncertainities[1].num > 0
    /\ current_example_index = ret.sample[1]

\* ------------------------------------------------------------------------
\* Properties of construction (checked under SpecSession)

\* the current slot holds the example at the current index of the pool
SlotAtSelected ==
    /\ current_example # Unset
    /\ current_example_index < Len(unlabelled)
    /\ unlabelled[current_example_index + 1] = current_example

\* C21: an append leaves the labelled pool, the model, the current slot and
\* the position of every example already in the unlabelled pool unchanged;
\* so a selection made before it still stands, and the accept that follows
\* removes the selected example from the unlabelled pool and labels it.
C21_AppendFrame ==
    /\ [][ret'.op = "add_unlabelled_examples" =>
             /\ labelled' = labelled
             /\ model' = model
             /\ current_example' = current_example
             /\ current_example_index' = current_example_index
             /\ Len(unlabelled') > Len(unlabelled)
             /\ \A position \in 1..Len(unlabelled) :
                    /\ unlabelled'[position] = unlabelled[position]
                    /\ heap'[unlabelled[position]] = heap[unlabelled[position]]
             /\ SlotAtSelected => SlotAtSelected'
          ]_vars
    /\ [][(ret.op = "add_unlabelled_examples" /\ SlotAtSelected
             /\ ret'.op = "save_example" /\ ret'.val = "None") =>
             /\ Occurrences(unlabelled', current_example) = Occurrences(unlabelled, current_example) - 1
             /\ unlabelled' = Pop(unlabelled, current_example_index)
             /\ labelled' = Append(labelled, current_example)
          ]_vars

\* an append made while a selection of a pool of two stands
C21_Witness ==
    /\ ret.op = "add_unlabelled_examples"
    /\ SlotAtSelected
    /\ current_example_index = 0
    /\ Len(unlabelled) = 2
    /\ Len(labelled) = 0

\* C9: no session with more tag identifiers than display colors is ever
\* constructed or served.
C9_OversizedVocabularyRejected ==
    session = "constructed" => Len(unique_tags) <= Len(list_of_colors)

\* ------------------------------------------------------------------------
\* The codec on its own: an example is rendered and the markup decoded, or a
\* hand-edited markup is posted and decoded

Words == <<John, AWord, Smith, CS, N101>>
Labels == {OLabel} \cup {BilouLabel(p, t) : p \in {"B", "I", "L", "U"}, t \in {PROF, CC}}

\* labelled (token, postag, label) sequences, the k-th token being Words[k]
LabelledExamples ==
    {[k \in 1..Len(ls) |-> <<Words[k], pos_tag(Words[k]), ls[k]>>] :
        ls \in UNION {[1..n -> Labels] : n \in 1..MaxSent}}

\* what an editor can leave on a span: nothing, a tag with an entity-instance
\* id, or a tag with the id missing
EditedAttrs == {NoAttrs, [a \in {"data-tag"} |-> PROF]}
                 \cup {TagAttrs(Str(n), PROF) : n \in {0, 1}} \cup {TagAttrs(Str(0), CC)}
EditedMarkups ==
    {[k \in 1..Len(as) |-> Span(Words[k], as[k])] :
        as \in UNION {[1..n -> EditedAttrs] : n \in 1..MaxHtml}}

InitCodec ==
    /\ session = "constructed"
    /\ unique_tags = DemoTags
    /\ heap = <<>> /\ unlabelled = <<>> /\ labelled = <<>> /\ model = NoModel
    /\ current_example = Unset /\ current_example_index = Unset /\ issued = {}
    /\ \/ /\ ex \in LabelledExamples
          /\ html = <<>>
          /\ ret = Call("example", "None", Unset, Unset)
       \/ /\ ex = <<>>
          /\ html \in EditedMarkups
          /\ ret = Call("edited", "None", Unset, Unset)
    /\ user_tags = Returned(<<>>)
    /\ text = <<>> /\ prediction = <<>> /\ entities = Returned(<<>>)
    /\ NoCall

GenerateHtml ==
    /\ ret.op = "example"
    /\ html' = _generate_html_from_example(ex)
    /\ ret' = Call("_generate_html_from_example", "None", Unset, Unset)
    /\ UNCHANGED <<ex, user_tags, sessVars, ctlVars, extVars, fnVars>>

GetBilouTags ==
    /\ ret.op \in {"_generate_html_from_example", "edited"}
    /\ user_tags' = _get_bilou_tags_from_html(html)
    /\ ret' = Call("_get_bilou_tags_from_html", ret.op, Unset, Unset)
    /\ UNCHANGED <<ex, html, sessVars, ctlVars, extVars, fnVars>>

NextCodec ==
    \/ GenerateHtml
    \/ GetBilouTags

SpecCodec == InitCodec /\ [][NextCodec]_vars

\* ------------------------------------------------------------------------
\* Properties of the codec (checked under SpecCodec)

IsLabel(label, prefix) == label[1] = prefix
TagIdOf(label) == From(label, 2)

\* a label sequence is valid BILOU: every Begin is followed by zero or more
\* Inside and one Last of its tag, Units stand alone, the rest is Outside
ValidBilou(ls) ==
    \A k \in 1..Len(ls) :
        /\ IsLabel(ls[k], "B") \/ IsLabel(ls[k], "I") =>
             /\ k < Len(ls)
             /\ IsLabel(ls[k + 1], "I") \/ IsLabel(ls[k + 1], "L")
             /\ TagIdOf(ls[k + 1]) = TagIdOf(ls[k])
        /\ IsLabel(ls[k], "I") \/ IsLabel(ls[k], "L") =>
             /\ k > 1
             /\ IsLabel(ls[k - 1], "B") \/ IsLabel(ls[k - 1], "I")

\* C4: decoding the markup rendered from a valid BILOU example returns its
\* tokens and its labels, adjacent entities of one tag included.
C4_RoundTrip ==
    (ret.op = "_get_bilou_tags_from_html" /\ ret.val = "_generate_html_from_example"
       /\ ValidBilou(_sent2labels(ex)))
        => user_tags = Returned([k \in 1..Len(ex) |-> <<ex[k][1], ex[k][3]>>])

\* two entities of one tag, a Unit and a Begin..Last, side by side, went
\* through the round trip
C4_Witness ==
    /\ ret.op = "_get_bilou_tags_from_html" /\ ret.val = "_generate_html_from_example"
    /\ _sent2labels(ex) = <<BilouLabel("U", PROF), BilouLabel("B", PROF),
                            BilouLabel("I", PROF), BilouLabel("L", PROF)>>
    /\ user_tags.raised = None

\* the elements of one entity-instance id are not contiguous, or a marked
\* element carries no id
Malformed(items) ==
    \/ \E k \in 1..Len(items) : _is_a_tag(items[k]) /\ "data-tag-id" \notin DOMAIN items[k].attrs
    \/ \E i, j, k \in 1..Len(items) :
         /\ i < j /\ j < k
         /\ _is_a_tag(items[i]) /\ _is_a_tag(items[k])
         /\ "data-tag-id" \in DOMAIN items[i].attrs /\ "data-tag-id" \in DOMAIN items[k].attrs
         /\ items[i].attrs["data-tag-id"] = items[k].attrs["data-tag-id"]
         /\ \/ ~_is_a_tag(items[j])
            \/ "data-tag-id" \notin DOMAIN items[j].attrs
            \/ items[j].attrs["data-tag-id"] # items[i].attrs["data-tag-id"]

\* C5: decoding a malformed markup raises; it never returns labels.
C5_MalformedIsError ==
    (ret.op = "_get_bilou_tags_from_html" /\ Malformed(html)) => user_tags.raised # None

\* ------------------------------------------------------------------------
\* The extraction pass on its own: a session with a model (fitted earlier or
\* restored), a text and the tagger's prediction for it
InitExtract ==
    /\ session = "constructed"
    /\ unique_tags = DemoTags
    /\ heap = <<>> /\ unlabelled = <<>> /\ labelled = <<>>
    /\ model = [CRF EXCEPT !.fitted = TRUE]
    /\ current_example = Unset /\ current_example_index = Unset /\ issued = {}
    /\ ex = <<>> /\ html = <<>> /\ user_tags = Returned(<<>>)
    /\ \E n \in 0..MaxSent :
         /\ text = SubSeq(Words, 1, n)
         /\ prediction \in [1..n -> Labels]
    /\ entities = Returned(<<>>)
    /\ ret = Call("text", "None", Unset, Unset)
    /\ NoCall

NextExtract == find_entities_in_text

SpecExtract == InitExtract /\ [][NextExtract]_vars

\* ------------------------------------------------------------------------
\* Properties of the extraction pass (checked under SpecExtract)

Extracted == ret.op = "find_entities_in_text"
TagName(label) == utmapping(unique_tags, TagIdOf(label))

\* the pending-span buffer when the k-th tag is scanned
BufferBefore(k) == Scan(unique_tags, text, prediction, k - 1).ent_toks

\* token k is part of an emitted entity
TokenEmitted(k) ==
    \E m \in 1..Len(entities.val) : \E i \in 1..k : \E j \in k..Len(text) :
        entities.val[m].value = Join(SubSeq(text, i, j))

\* C6: a Unit scanned while the buffer holds a Begin..Inside run emits the
\* buffered tokens as an entity of the run's tag and then the Unit token as
\* an entity of its own.
C6_UnitFlushesBuffer ==
    Extracted =>
        \A i \in 1..Len(prediction) : \A k \in (i + 1)..Len(prediction) :
            (/\ IsLabel(prediction[i], "B")
             /\ \A j \in (i + 1)..(k - 1) : IsLabel(prediction[j], "I")
             /\ IsLabel(prediction[k], "U"))
            => \E m \in 1..(Len(entities.val) - 1) :
                  /\ entities.val[m] = [value |-> Join(SubSeq(text, i, k - 1)),
                                        entity |-> TagName(prediction[i])]
                  /\ entities.val[m + 1] = [value |-> text[k],
                                            entity |-> TagName(prediction[k])]

\* C7: an Inside or Last scanned while the buffer is empty is dropped: its
\* token is part of no entity.
C7_OrphanDropped ==
    Extracted =>
        \A k \in 1..Len(prediction) :
            ((IsLabel(prediction[k], "I") \/ IsLabel(prediction[k], "L"))
               /\ BufferBefore(k) = <<>>)
            => ~TokenEmitted(k)

\* the spans of a valid BILOU tagging, by first token: <<first, last>>
SpanEnd(ls, k) ==
    IF IsLabel(ls[k], "U") THEN k
    ELSE CHOOSE j \in k..Len(ls) :
            IsLabel(ls[j], "L") /\ \A m \in (k + 1)..(j - 1) : ~IsLabel(ls[m], "L")
SpanStarts(ls) == {k \in 1..Len(ls) : IsLabel(ls[k], "B") \/ IsLabel(ls[k], "U")}
\* the n-th smallest member of S
Nth(S, n) == CHOOSE k \in S : Cardinality({m \in S : m < k}) = n - 1
ExpectedEntities(tokens, ls) ==
    [n \in 1..Cardinality(SpanStarts(ls)) |->
        LET k == Nth(SpanStarts(ls), n)
        IN  [value |-> Join(SubSeq(tokens, k, SpanEnd(ls, k))),
             entity |-> TagName(ls[k])]]

\* C8: for a valid BILOU prediction the result is one record per span, in
\* the order of the spans' first tokens: the span's tokens joined by single
\* spaces and the name of its tag.
C8_ValidExtraction ==
    (Extracted /\ ValidBilou(prediction))
        => entities = Returned(ExpectedEntities(text, prediction))

\* the pass ran over O, B-PROF, L-PROF, U-CC
C8_Witness ==
    /\ Extracted
    /\ prediction = <<OLabel, BilouLabel("B", PROF), BilouLabel("L", PROF), BilouLabel("U", CC)>>
    /\ Len(entities.val) = 2

\* the last token of the span opened by the Begin at k: the Insides after
\* it, and the Last that follows them if there is one
RunEnd(ls, k) ==
    CHOOSE j \in k..Len(ls) :
        /\ \A m \in (k + 1)..j : IsLabel(ls[m], "I")
        /\ (j = Len(ls) \/ ~IsLabel(ls[j + 1], "I"))
OpenedSpanEnd(ls, k) ==
    IF RunEnd(ls, k) < Len(ls) /\ IsLabel(ls[RunEnd(ls, k) + 1], "L")
    THEN RunEnd(ls, k) + 1
    ELSE RunEnd(ls, k)

\* C18: a Begin scanned while a Begin..Inside run is open closes the run:
\* the buffered tokens are emitted as one entity under the run's tag name,
\* and then the new span's tokens are emitted under the new Begin's tag name.
C18_BeginClosesOpenSpan ==
    Extracted =>
        \A i \in 1..Len(prediction) : \A k \in (i + 1)..Len(prediction) :
            (/\ IsLabel(prediction[i], "B")
             /\ \A j \in (i + 1)..(k - 1) : IsLabel(prediction[j], "I")
             /\ IsLabel(prediction[k], "B"))
            => \E m \in 1..(Len(entities.val) - 1) :
                  /\ entities.val[m] = [value |-> Join(SubSeq(text, i, k - 1)),
                                        entity |-> TagName(prediction[i])]
                  /\ entities.val[m + 1] =
                        [value |-> Join(SubSeq(text, k, OpenedSpanEnd(prediction, k))),
                         entity |-> TagName(prediction[k])]


\* ------------------------------------------------------------------------
\* Restore: labelled data and models pickled by an earlier session

\* a pickled labelled example: its corrected tokens and the features that
\* were cached when it was saved
Pickled(tokens, label, features) ==
    [raw |-> [k \in 1..Len(tokens) |-> <<tokens[k], pos_tag(tokens[k]), label>>],
     features |-> features]
\* the files load_data is given: an example saved by this code, an example
\* whose pickled features are not those of its tokens
DataFiles ==
    { << Pickled(<<Dr>>, BilouLabel("U", PROF), _sent2features(_get_pos_tagged_example(<<Dr>>))) >>,
      << Pickled(<<Dr>>, OLabel, _sent2features(_get_pos_tagged_example(<<AWord>>))) >> }

load_data_TrustsFile ==
    /\ session = "constructed"
    /\ \E file \in DataFiles :
         /\ Len(heap) + Len(file) <= MaxExamples
         /\ heap' = heap \o [k \in 1..Len(file) |->
                               [raw |-> file[k].raw, cached |-> TRUE, features |-> file[k].features]]
         /\ labelled' = [k \in 1..Len(file) |-> Len(heap) + k]
    /\ ret' = Call("load_data", "None", Unset, Unset)
    /\ UNCHANGED <<unlabelled, model, current_example, current_example_index, issued>>
    /\ UNCHANGED <<sessVars, codecVars, extVars, fnVars>>

\* lines 322-334: the unpickled dicts are new objects; their features are
\* computed again from their tokens
load_data ==
    /\ session = "constructed"
    /\ \E file \in DataFiles :
         /\ Len(heap) + Len(file) <= MaxExamples
         /\ heap' = heap \o [k \in 1..Len(file) |->
                               [raw |-> file[k].raw, cached |-> TRUE,
                                features |-> _sent2features(file[k].raw)]]
         /\ labelled' = [k \in 1..Len(file) |-> Len(heap) + k]
    /\ ret' = Call("load_data", "None", Unset, Unset)
    /\ UNCHANGED <<unlabelled, model, current_example, current_example_index, issued>>
    /\ UNCHANGED <<sessVars, codecVars, extVars, fnVars>>

\* what save_model pickled: None, or a CRF fitted by the earlier session
ModelFiles == {NoModel, [CRF EXCEPT !.fitted = TRUE]}

\* lines 574-585
load_model ==
    /\ session = "constructed"
    /\ \E pickled \in ModelFiles : model' = pickled
    /\ ret' = Call("load_model", "None", Unset, Unset)
    /\ UNCHANGED <<heap, unlabelled, labelled, current_example, current_example_index, issued>>
    /\ UNCHANGED <<sessVars, codecVars, extVars, fnVars>>

\* select, accept, append and restore
NextRestore ==
    \/ load_example
    \/ save_example_route
    \/ add_unlabelled_examples
    \/ load_data
    \/ load_model

SpecRestore == Init /\ [][NextRestore]_vars

\* the routes, append and model restore
NextRegime ==
    \/ load_example
    \/ update_model
    \/ save_example_route
    \/ add_unlabelled_examples
    \/ load_model

SpecRegime == Init /\ [][NextRegime]_vars

\* C19: the controller starts with the model absent; the model becomes
\* present only through retrain or model restore; a select on a non-empty
\* pool is a random selection exactly when the model is absent and a query
\* selection exactly when it is present; a retrain fits the model on the
\* features and the labels of every example of the labelled pool.
C19_Regimes ==
    /\ ~model.present
    /\ [][/\ (~model.present /\ model'.present) => ret'.op \in {"update_model", "load_model"}
          /\ (ret'.op = "load_example" /\ Len(unlabelled) > 0) =>
                 /\ (ret'.val = "random") <=> ~model.present
                 /\ (ret'.val = "query") <=> model.present
          /\ (ret'.op = "update_model" /\ ret'.val = "Model Updated Successfully") =>
                 /\ model'.X = [k \in 1..Len(labelled) |-> _sent2features(heap[labelled[k]].raw)]
                 /\ model'.Y = [k \in 1..Len(labelled) |-> _sent2labels(heap[labelled[k]].raw)]
         ]_vars

\* C20: an example that holds cached features holds the features of its
\* current tokens, and every example of the labelled pool holds cached
\* features.
C20_FeaturesConsistent ==
    /\ \A id \in 1..Len(heap) :
         heap[id].cached => heap[id].features = _sent2features(heap[id].raw)
    /\ \A k \in 1..Len(labelled) : heap[labelled[k]].cached

\* a restored example next to one whose features a query cached
C20_Witness ==
    /\ ret.op = "load_example" /\ ret.val = "query"
    /\ Len(labelled) > 0
    /\ heap[labelled[1]].raw[1][3] = OLabel
    /\ heap[current_example].cached
    /\ Len(heap[current_example].raw[1]) = 2


\* ------------------------------------------------------------------------
\* The static methods on their own: the argument is chosen, then the method
\* is applied once.  The controller is not constructed.
NoSession ==
    /\ session = "none"
    /\ unique_tags = DemoTags
    /\ heap = <<>>
    /\ unlabelled = <<>>
    /\ labelled = <<>>
    /\ model = NoModel
    /\ current_example = Unset
    /\ current_example_index = Unset
    /\ issued = {}
    /\ ret = Call("caller", "None", Unset, Unset)
    /\ ex = <<>> /\ html = <<>> /\ user_tags = Returned(<<>>)
    /\ text = <<>> /\ prediction = <<>> /\ entities = Returned(<<>>)

NotCalled == [done |-> FALSE]
ReturnedValue(val) == [done |-> TRUE, val |-> val]

\* ------------------------------------------------------------------------
\* _is_alpha_and_numeric over strings of the four character classes
MaxStr == 3         \* characters in a classified string
ClassChars == {"1", "A", "a", "!"}

InitAlnum ==
    /\ NoSession
    /\ \E string \in BoundedSeqs(ClassChars, MaxStr) : args = [string |-> string]
    /\ result = NotCalled

is_alpha_and_numeric ==
    /\ ~result.done
    /\ result' = ReturnedValue(_is_alpha_and_numeric(args.string))
    /\ UNCHANGED <<ctlVars, sessVars, codecVars, extVars, ret, args>>

NextAlnum == is_alpha_and_numeric

SpecAlnum == InitAlnum /\ [][NextAlnum]_vars

EndsLetterAndDigit(string) ==
    /\ Len(string) > 0
    /\ \/ IsAlphaCh(string[1]) /\ IsDigitCh(string[Len(string)])
       \/ IsDigitCh(string[1]) /\ IsAlphaCh(string[Len(string)])

\* C12: the classifier gives DIGIT for all digits, ALPHA_UPPER / ALPHA_LOWER /
\* ALPHA for all letters, EMPTY for the empty string, ALPHA_NUM only when the
\* first and last characters are one letter and one digit, '' otherwise;
\* "a1" gives ALPHA_NUM and "a!1" gives ''.
C12_ClassificationTable ==
    result.done =>
        LET string == args.string
            allDigits == Len(string) > 0 /\ \A k \in 1..Len(string) : IsDigitCh(string[k])
            allLetters == Len(string) > 0 /\ \A k \in 1..Len(string) : IsAlphaCh(string[k])
            allUpper == \A k \in 1..Len(string) : string[k] \in Uppers
            allLower == \A k \in 1..Len(string) : string[k] \in Lowers
        IN  /\ allDigits => result.val = "DIGIT"
            /\ (allLetters /\ allUpper) => result.val = "ALPHA_UPPER"
            /\ (allLetters /\ allLower) => result.val = "ALPHA_LOWER"
            /\ (allLetters /\ ~allUpper /\ ~allLower) => result.val = "ALPHA"
            /\ Len(string) = 0 => result.val = "EMPTY"
            /\ result.val = "ALPHA_NUM" => EndsLetterAndDigit(string)
            /\ (Len(string) > 0 /\ ~allDigits /\ ~allLetters /\ ~EndsLetterAndDigit(string))
                   => result.val = ""
            /\ string = <<"a", "1">> => result.val = "ALPHA_NUM"
            /\ string = <<"a", "!", "1">> => result.val = ""


\* ------------------------------------------------------------------------
\* _word2features over tagged sentences; i is the caller's index, from 0
MaxFeatSent == 3    \* tokens in a sentence given to the feature extractor
FeatureWords == {Dr, Smith, N101}

InitFeatures ==
    /\ NoSession
    /\ \E n \in 1..MaxFeatSent : \E tokens \in [1..n -> FeatureWords] : \E i \in 0..(n - 1) :
         args = [sent |-> _get_pos_tagged_example(tokens), i |-> i]
    /\ result = NotCalled

word2features ==
    /\ ~result.done
    /\ result' = ReturnedValue(_word2features(args.sent, args.i + 1))
    /\ UNCHANGED <<ctlVars, sessVars, codecVars, extVars, ret, args>>

NextFeatures == word2features

SpecFeatures == InitFeatures /\ [][NextFeatures]_vars

\* the keys '<prefix>:...' are in the mapping
HasGroup(group) == DOMAIN group # {}

\* what the key says about a tagged token
KeyOf(key, token) ==
    CASE key = "word.lower()" -> StrLower(token[1])
      [] key = "word[-3:]" -> Suffix(token[1], 3)
      [] key = "word[-2:]" -> Suffix(token[1], 2)
      [] key = "word.istitle()" -> StrIsTitle(token[1])
      [] key = "word.isupper()" -> StrIsUpper(token[1])
      [] key = "postag" -> token[2]
      [] key = "word.is_alphanum" -> _is_alpha_and_numeric(token[1])

\* the group is made of the seven keys under prefix, computed from token
GroupFrom(group, prefix, token) ==
    /\ DOMAIN group = {"word.lower()", "word[-3:]", "word[-2:]", "word.istitle()",
                       "word.isupper()", "postag", "word.is_alphanum"}
    /\ \A key \in DOMAIN group :
         /\ group[key].prefix = prefix
         /\ group[key].value = KeyOf(key, token)

\* C13: BOS exactly at the first index, EOS exactly at the last; the '-1:'
\* features exactly when i > 0, '-2:' when i > 1, '+1:' when i < len-1, '+2:'
\* when i < len-2; each neighbour feature is computed from the token at that
\* relative offset.
C13_BoundaryAndNeighbours ==
    result.done =>
        LET sent == args.sent
            i == args.i
            n == Len(args.sent)
            features == result.val
            at(j) == sent[j + 1]
        IN  /\ (features.BOS # Absent) <=> (i = 0)
            /\ (features.EOS # Absent) <=> (i = n - 1)
            /\ HasGroup(features.prev1) <=> (i > 0)
            /\ HasGroup(features.prev2) <=> (i > 1)
            /\ HasGroup(features.next1) <=> (i < n - 1)
            /\ HasGroup(features.next2) <=> (i < n - 2)
            /\ i > 0 => GroupFrom(features.prev1, "-1", at(i - 1))
            /\ i > 1 => GroupFrom(features.prev2, "-2", at(i - 2))
            /\ i < n - 1 => GroupFrom(features.next1, "+1", at(i + 1))
            /\ i < n - 2 => GroupFrom(features.next2, "+2", at(i + 2))

\* index 1 of [("Dr", NNP), ("Smith", NNP), ("101", CD)]: both neighbours, EOS away
C13_Witness ==
    /\ result.done
    /\ args.sent = _get_pos_tagged_example(<<Dr, Smith, N101>>)
    /\ args.i = 2
    /\ result.val.EOS = "True"
    /\ result.val.BOS = Absent
    /\ result.val.prev1["word.lower()"].value = <<"s", "m", "i", "t", "h">>
    /\ result.val.prev2["word.lower()"].value = <<"d", "r">>
    /\ result.val.next1 = NoGroup


\* ------------------------------------------------------------------------
\* _get_prediction_uncertainity over marginals of up to MaxTokens tokens
MaxTokens == 3      \* tokens in a scored prediction
\* a token's marginals: the probabilities of its labels, in percent
Dists == {<<100>>, <<100, 0>>, <<50, 50>>, <<90, 10>>, <<25, 25, 25, 25>>}

InitScore ==
    /\ NoSession
    /\ \E pred \in BoundedSeqs(Dists, MaxTokens) : \E mode \in {"max", "mean"} :
         args = [pred |-> pred, mode |-> mode]
    /\ result = NotCalled

get_prediction_uncertainity ==
    /\ ~result.done
    /\ result' = ReturnedValue(_get_prediction_uncertainity(args.pred, args.mode))
    /\ UNCHANGED <<ctlVars, sessVars, codecVars, extVars, ret, args>>

NextScore == get_prediction_uncertainity

SpecScore == InitScore /\ [][NextScore]_vars

\* the entropy of one token's marginals, term by term
TokenEntropy(dist) == SumOf([k \in 1..Len(dist) |-> entr(dist[k])])

\* C14: the score is 0 for zero tokens, the maximum of the token entropies
\* under mode "max" and their arithmetic mean under mode "mean"; a token whose
\* distribution puts probability 1 on one label contributes entropy 0.
C14_ScoreIsMaxOrMean ==
    result.done =>
        LET pred == args.pred
            score == result.val
            tokens == 1..Len(pred)
            certain(k) == \E l \in 1..Len(pred[k]) : pred[k][l] = 100
        IN  /\ Len(pred) = 0 => (score.den > 0 /\ score.num = 0)
            /\ (Len(pred) > 0 /\ args.mode = "max") =>
                   /\ score.den = 1
                   /\ \E k \in tokens : score.num = TokenEntropy(pred[k])
                   /\ \A k \in tokens : score.num >= TokenEntropy(pred[k])
            /\ (Len(pred) > 0 /\ args.mode = "mean") =>
                   /\ score.den > 0
                   /\ score.num * Len(pred) = score.den * SumOf([k \in tokens |-> TokenEntropy(pred[k])])
            /\ \A k \in tokens : certain(k) => TokenEntropy(pred[k]) = 0
            /\ (Len(pred) > 0 /\ \A k \in tokens : certain(k)) => score.num = 0

\* a certain token between two uncertain ones, the largest entropy first
C14_Witness ==
    /\ result.done
    /\ args.pred = << <<25, 25, 25, 25>>, <<100, 0>>, <<90, 10>> >>
    /\ args.mode = "max"
    /\ result.val = Fraction(1388, 1)


\* ------------------------------------------------------------------------
\* C22: whenever decoding returns, for any markup, groups that are not
\* contiguous included, the result holds one (text, label) pair per span
\* element, in document order, and its labels are valid BILOU.
C22_DecodedIsValidBilou ==
    (ret.op = "_get_bilou_tags_from_html" /\ user_tags.raised = None) =>
        /\ Len(user_tags.val) = Len(html)
        /\ \A k \in 1..Len(html) : user_tags.val[k][1] = html[k].text
        /\ ValidBilou([k \in 1..Len(user_tags.val) |-> user_tags.val[k][2]])

\* a returned decoding of a markup whose one group is split by a plain
\* element and carries two tags
C22_Witness ==
    /\ ret.op = "_get_bilou_tags_from_html" /\ ret.val = "edited"
    /\ user_tags.raised = None
    /\ Len(html) = 4
    /\ html[1].attrs = TagAttrs(Str(0), PROF)
    /\ html[2].attrs = NoAttrs
    /\ html[3].attrs = TagAttrs(Str(0), CC)
    /\ html[4].attrs = NoAttrs

====
